---- MODULE Spec2Model ----
(***************************************************************************)
(* Model of src/elements.cpp (bls-signatures): the G1Element, G2Element    *)
(* and GTElement value types, their compressed wire codec, validity        *)
(* checks, comparison operators and group operators.                       *)
(*                                                                         *)
(* The arithmetic provider (field and curve arithmetic, compressed point   *)
(* read/write, generator constants) is not part of elements.cpp.  It is    *)
(* modelled by a small curve of the same shape as the real one:            *)
(*   G1 : y^2 = x^3 + 4        over F_p,              p = 13               *)
(*   G2 : y^2 = x^3 + 4(1+u)   over F_p[u]/(u^2 - 2)                       *)
(* with coordinates kept in the real 48-byte big-endian wire width.        *)
(***************************************************************************)
EXTENDS Integers, Sequences, FiniteSets, TLC

(***************************************************************************)
(* Sizes of the wire encodings.                                            *)
(***************************************************************************)
G1_SIZE == 48
G2_SIZE == 96
GT_SIZE == 576
FP_BYTES == 48
SCALAR_BYTES == 32

(***************************************************************************)
(* Bounds of the model.                                                    *)
(***************************************************************************)
MaxCoord == 13
MaxScalar == 2

(***************************************************************************)
(* Byte helpers.                                                           *)
(***************************************************************************)
RECURSIVE BitAnd(_, _)
BitAnd(a, b) ==
    IF a = 0 \/ b = 0 THEN 0
    ELSE (a % 2) * (b % 2) + 2 * BitAnd(a \div 2, b \div 2)

RECURSIVE BitOr(_, _)
BitOr(a, b) ==
    IF a = 0 THEN b
    ELSE IF b = 0 THEN a
    ELSE (IF a % 2 = 1 \/ b % 2 = 1 THEN 1 ELSE 0) + 2 * BitOr(a \div 2, b \div 2)

ZeroBytes(n) == [i \in 1..n |-> 0]

Reverse(s) == [i \in 1..Len(s) |-> s[Len(s) + 1 - i]]

HasOnlyZeros(bytes) == \A i \in 1..Len(bytes) : bytes[i] = 0

(***************************************************************************)
(* Arithmetic provider: the base field.  A field element is stored in a    *)
(* native payload as 48 little-endian limb bytes.                          *)
(***************************************************************************)
P == 13

FpLimbs(v) == [i \in 1..FP_BYTES |-> IF i = 1 THEN v ELSE 0]

InField(limbs) == limbs[1] < P /\ \A i \in 2..FP_BYTES : limbs[i] = 0

\* index of the most significant non-zero limb (0 for zero)
FpTop(limbs) ==
    IF HasOnlyZeros(limbs) THEN 0
    ELSE CHOOSE i \in 1..FP_BYTES :
             limbs[i] # 0 /\ \A j \in (i + 1)..FP_BYTES : limbs[j] = 0

\* the value of limbs 1..i modulo P (Horner's rule from the top limb down)
RECURSIVE FpHorner(_, _)
FpHorner(limbs, i) ==
    IF i > FpTop(limbs) THEN 0
    ELSE LET high == FpHorner(limbs, i + 1)
         IN  (high * 256 + limbs[i]) % P

FpReduce(limbs) == FpHorner(limbs, 1)

FpInv(a) == IF a % P = 0 THEN 0 ELSE CHOOSE c \in 1..(P - 1) : (a * c) % P = 1

\* 1 when y is the larger of the two roots y, p - y ("sign" of y)
FpSign(y) == IF y > (P - 1) \div 2 THEN 1 ELSE 0

JunkY(s) == IF s = 1 THEN P - 1 ELSE 1

(***************************************************************************)
(* Arithmetic provider: G1 points.  Native payload blst_p1.                *)
(***************************************************************************)
G1Infinity == [inf |-> TRUE, x |-> ZeroBytes(FP_BYTES), y |-> 0]

G1Point(xv, yv) == [inf |-> FALSE, x |-> FpLimbs(xv), y |-> yv]

G1Roots(xv) == {y \in 0..(P - 1) : (y * y) % P = (xv * xv * xv + 4) % P}

blst_p1_is_inf(p) == p.inf

blst_p1_on_curve(p) ==
    \/ p.inf
    \/ InField(p.x) /\ p.y \in G1Roots(FpReduce(p.x))

\* compressed read: buffer[1] is 2 or 3 (sign of y), buffer[2..49] is x, big-endian
g1_read_bin(buffer) ==
    IF buffer[1] = 0 THEN G1Infinity
    ELSE LET limbs == Reverse(SubSeq(buffer, 2, FP_BYTES + 1))
             s     == buffer[1] - 2
             roots == IF InField(limbs)
                      THEN {y \in G1Roots(FpReduce(limbs)) : FpSign(y) = s}
                      ELSE {}
         IN  [inf |-> FALSE, x |-> limbs,
              y |-> IF roots = {} THEN JunkY(s) ELSE CHOOSE y \in roots : TRUE]

\* compressed write: the inverse layout
g1_write_bin(p) ==
    IF p.inf THEN ZeroBytes(FP_BYTES + 1)
    ELSE <<2 + FpSign(p.y)>> \o Reverse(p.x)

blst_p1_cneg(p) ==
    IF p.inf THEN p ELSE [p EXCEPT !.y = (P - p.y) % P]

blst_p1_add(a, b) ==
    IF a.inf THEN b
    ELSE IF b.inf THEN a
    ELSE LET x1 == FpReduce(a.x)
             x2 == FpReduce(b.x)
             y1 == a.y
             y2 == b.y
         IN  IF x1 = x2 /\ (y1 + y2) % P = 0 THEN G1Infinity
             ELSE LET l  == IF x1 = x2
                            THEN (3 * x1 * x1 * FpInv(2 * y1)) % P
                            ELSE ((y2 - y1 + P) * FpInv(x2 - x1 + P)) % P
                      x3 == (l * l + 2 * P - x1 - x2) % P
                      y3 == (l * (x1 - x3 + P) + P - y1) % P
                  IN  G1Point(x3, y3)

blst_p1_generator == G1Point(7, 3)

(***************************************************************************)
(* G1Element                                                               *)
(***************************************************************************)
\* the default-constructed element: the value FromBytesUnchecked returns for
\* the infinity encoding
G1Element_Default == G1Infinity

DecodeFail(kind, touched) ==
    [err |-> kind, touched |-> touched, provider |-> FALSE]

DecodeOk(ele, provider) ==
    [err |-> "none", touched |-> TRUE, provider |-> provider, ele |-> ele]

\* G1Element_DecodeBody with the infinity test written with && for ||
G1Element_DecodeBody_AndInf(bytes) ==
    LET buffer0 == <<0>> \o SubSeq(bytes, 1, G1_SIZE)
        buffer  == [buffer0 EXCEPT ![2] = BitAnd(@, 31)]
        fZerosOnly == HasOnlyZeros(buffer)
    IN  IF BitAnd(bytes[1], 192) = 192
        THEN IF bytes[1] # 192 /\ ~fZerosOnly
             THEN DecodeFail("NonCanonicalInfinity", TRUE)
             ELSE DecodeOk(G1Element_Default, FALSE)
        ELSE IF BitAnd(bytes[1], 192) # 128
             THEN DecodeFail("MalformedHeader", TRUE)
        ELSE IF fZerosOnly
             THEN DecodeFail("ZeroXNotAllowed", TRUE)
        ELSE DecodeOk(
                 g1_read_bin([buffer EXCEPT
                     ![1] = IF BitAnd(bytes[1], 32) # 0 THEN 3 ELSE 2]),
                 TRUE)

\* lines 36-68: the path taken once the size check has passed
G1Element_DecodeBody(bytes) ==
    LET buffer0 == <<0>> \o SubSeq(bytes, 1, G1_SIZE)
        buffer  == [buffer0 EXCEPT ![2] = BitAnd(@, 31)]
        fZerosOnly == HasOnlyZeros(buffer)
    IN  IF BitAnd(bytes[1], 192) = 192
        THEN IF bytes[1] # 192 \/ ~fZerosOnly
             THEN DecodeFail("NonCanonicalInfinity", TRUE)
             ELSE DecodeOk(G1Element_Default, FALSE)
        ELSE IF BitAnd(bytes[1], 192) # 128
             THEN DecodeFail("MalformedHeader", TRUE)
        ELSE IF fZerosOnly
             THEN DecodeFail("ZeroXNotAllowed", TRUE)
        ELSE DecodeOk(
                 g1_read_bin([buffer EXCEPT
                     ![1] = IF BitAnd(bytes[1], 32) # 0 THEN 3 ELSE 2]),
                 TRUE)

G1Element_FromBytesUnchecked(bytes) ==
    IF Len(bytes) # G1_SIZE THEN DecodeFail("InvalidSize", FALSE)
    ELSE G1Element_DecodeBody(bytes)

G1Element_IsValid(p) ==
    IF blst_p1_is_inf(p) THEN TRUE ELSE blst_p1_on_curve(p)

G1Element_FromBytes(bytes) ==
    LET r == G1Element_FromBytesUnchecked(bytes)
    IN  IF r.err # "none" THEN r
        ELSE IF ~G1Element_IsValid(r.ele)
             THEN [err |-> "InvalidPoint", touched |-> TRUE, provider |-> r.provider]
        ELSE r

G1Element_Serialize(p) ==
    LET buffer == g1_write_bin(p)
    IN  IF buffer[1] = 0
        THEN [i \in 1..G1_SIZE |-> IF i = 1 THEN 192 ELSE 0]
        ELSE LET b1 == IF buffer[1] = 3 THEN BitOr(buffer[2], 32) ELSE buffer[2]
             IN  <<BitOr(b1, 128)>> \o SubSeq(buffer, 3, G1_SIZE + 1)

(***************************************************************************)
(* Arithmetic provider: the quadratic extension field and G2 points.       *)
(* An extension-field element c0 + c1*u is the pair <<c0, c1>>; the        *)
(* native payload blst_p2 stores each coordinate component as limbs.       *)
(***************************************************************************)
F2Add(a, b) == <<(a[1] + b[1]) % P, (a[2] + b[2]) % P>>

F2Sub(a, b) == <<(a[1] - b[1] + P) % P, (a[2] - b[2] + P) % P>>

F2Mul(a, b) == <<(a[1] * b[1] + 2 * a[2] * b[2]) % P, (a[1] * b[2] + a[2] * b[1]) % P>>

F2Neg(a) == <<(P - a[1]) % P, (P - a[2]) % P>>

F2Inv(a) ==
    LET n == FpInv((a[1] * a[1] + 2 * P * P - 2 * a[2] * a[2]) % P)
    IN  <<(a[1] * n) % P, ((P - a[2]) * n) % P>>

F2Set == {<<a, b>> : a \in 0..(P - 1), b \in 0..(P - 1)}

F2Sign(y) == IF y[2] # 0 THEN FpSign(y[2]) ELSE FpSign(y[1])

F2JunkY(s) == <<JunkY(s), 0>>

B2 == <<4, 4>>

G2Infinity ==
    [inf |-> TRUE, x0 |-> ZeroBytes(FP_BYTES), x1 |-> ZeroBytes(FP_BYTES), y |-> <<0, 0>>]

G2Point(xv, yv) ==
    [inf |-> FALSE, x0 |-> FpLimbs(xv[1]), x1 |-> FpLimbs(xv[2]), y |-> yv]

G2X(p) == <<FpReduce(p.x0), FpReduce(p.x1)>>

G2Roots(xv) == {y \in F2Set : F2Mul(y, y) = F2Add(F2Mul(xv, F2Mul(xv, xv)), B2)}

blst_p2_is_inf(q) == q.inf

blst_p2_on_curve(q) ==
    \/ q.inf
    \/ InField(q.x0) /\ InField(q.x1) /\ q.y \in G2Roots(G2X(q))

\* compressed read: buffer[1] is 2 or 3, buffer[2..49] is c0, buffer[50..97] is c1
g2_read_bin(buffer) ==
    IF buffer[1] = 0 THEN G2Infinity
    ELSE LET l0 == Reverse(SubSeq(buffer, 2, FP_BYTES + 1))
             l1 == Reverse(SubSeq(buffer, FP_BYTES + 2, 2 * FP_BYTES + 1))
             s  == buffer[1] - 2
             roots == IF InField(l0) /\ InField(l1)
                      THEN {y \in G2Roots(<<FpReduce(l0), FpReduce(l1)>>) : F2Sign(y) = s}
                      ELSE {}
         IN  [inf |-> FALSE, x0 |-> l0, x1 |-> l1,
              y |-> IF roots = {} THEN F2JunkY(s) ELSE CHOOSE y \in roots : TRUE]

g2_write_bin(q) ==
    IF q.inf THEN ZeroBytes(2 * FP_BYTES + 1)
    ELSE <<2 + F2Sign(q.y)>> \o Reverse(q.x0) \o Reverse(q.x1)

blst_p2_cneg(q) ==
    IF q.inf THEN q ELSE [q EXCEPT !.y = F2Neg(q.y)]

blst_p2_add(a, b) ==
    IF a.inf THEN b
    ELSE IF b.inf THEN a
    ELSE LET x1 == G2X(a)
             x2 == G2X(b)
             y1 == a.y
             y2 == b.y
         IN  IF x1 = x2 /\ F2Add(y1, y2) = <<0, 0>> THEN G2Infinity
             ELSE LET l  == IF x1 = x2
                            THEN F2Mul(F2Mul(<<3, 0>>, F2Mul(x1, x1)), F2Inv(F2Add(y1, y1)))
                            ELSE F2Mul(F2Sub(y2, y1), F2Inv(F2Sub(x2, x1)))
                      x3 == F2Sub(F2Sub(F2Mul(l, l), x1), x2)
                      y3 == F2Sub(F2Mul(l, F2Sub(x1, x3)), y1)
                  IN  G2Point(x3, y3)

blst_p2_generator == G2Point(<<7, 0>>, <<1, 2>>)

(***************************************************************************)
(* Arithmetic provider: scalar multiplication.  The scalar is read from    *)
(* 32 little-endian bytes.                                                 *)
(***************************************************************************)
\* index of the most significant non-zero scalar byte (0 for the zero scalar)
ScalarTop(bte) ==
    IF HasOnlyZeros(bte) THEN 0
    ELSE CHOOSE i \in 1..SCALAR_BYTES :
             bte[i] # 0 /\ \A j \in (i + 1)..SCALAR_BYTES : bte[j] = 0

RECURSIVE P1Small(_, _)
P1Small(pt, n) ==
    IF n = 0 THEN G1Infinity
    ELSE LET prev == P1Small(pt, n - 1) IN blst_p1_add(prev, pt)

RECURSIVE P1Dbl(_, _)
P1Dbl(pt, n) ==
    IF n = 0 \/ pt.inf THEN pt
    ELSE LET dbl == blst_p1_add(pt, pt) IN P1Dbl(dbl, n - 1)

\* the multiple of a by the scalar held in bytes i..32 of bte (little-endian);
\* the bytes above the most significant non-zero one contribute the identity
RECURSIVE P1MultFrom(_, _, _)
P1MultFrom(a, bte, i) ==
    IF i > ScalarTop(bte) THEN G1Infinity
    ELSE LET high == P1MultFrom(a, bte, i + 1)
         IN  blst_p1_add(P1Dbl(high, 8), P1Small(a, bte[i]))

blst_p1_mult(a, bte) == P1MultFrom(a, bte, 1)

RECURSIVE P2Small(_, _)
P2Small(pt, n) ==
    IF n = 0 THEN G2Infinity
    ELSE LET prev == P2Small(pt, n - 1) IN blst_p2_add(prev, pt)

RECURSIVE P2Dbl(_, _)
P2Dbl(pt, n) ==
    IF n = 0 \/ pt.inf THEN pt
    ELSE LET dbl == blst_p2_add(pt, pt) IN P2Dbl(dbl, n - 1)

\* the multiple of a by the scalar held in bytes i..32 of bte (little-endian);
\* the bytes above the most significant non-zero one contribute the identity
RECURSIVE P2MultFrom(_, _, _)
P2MultFrom(a, bte, i) ==
    IF i > ScalarTop(bte) THEN G2Infinity
    ELSE LET high == P2MultFrom(a, bte, i + 1)
         IN  blst_p2_add(P2Dbl(high, 8), P2Small(a, bte[i]))

blst_p2_mult(a, bte) == P2MultFrom(a, bte, 1)

\* a scalar of value k as the 32 little-endian bytes of a blst_scalar
blst_lendian_from_scalar(k) ==
    [i \in 1..SCALAR_BYTES |-> IF i = 1 THEN k % 256 ELSE IF i = 2 THEN k \div 256 ELSE 0]

(***************************************************************************)
(* Arithmetic provider: the target field.  Native payload blst_fp12: 12    *)
(* components of 48 limb bytes; the wire form holds each component         *)
(* big-endian.                                                             *)
(***************************************************************************)
ChunkRev(i) == ((i - 1) \div FP_BYTES) * FP_BYTES + FP_BYTES - ((i - 1) % FP_BYTES)

gt_read_bin(bytes) == [i \in 1..GT_SIZE |-> bytes[ChunkRev(i)]]

gt_write_bin(r) == [i \in 1..GT_SIZE |-> r[ChunkRev(i)]]

gt_set_unity == [i \in 1..GT_SIZE |-> IF i = 1 THEN 1 ELSE 0]

\* the target subgroup: the cube roots of unity of the base field
blst_fp12_in_group(r) ==
    /\ r[1] < P
    /\ \A i \in 2..GT_SIZE : r[i] = 0
    /\ (r[1] * r[1] * r[1]) % P = 1

(***************************************************************************)
(* G2Element                                                               *)
(***************************************************************************)
G2Element_Default == G2Infinity

\* G2Element_DecodeBody without the zero-coordinate test
G2Element_DecodeBody_NoZeroTest(bytes) ==
    LET half    == G2_SIZE \div 2
        buffer0 == <<0>> \o SubSeq(bytes, half + 1, G2_SIZE) \o SubSeq(bytes, 1, half)
        buffer  == [buffer0 EXCEPT ![50] = BitAnd(@, 31)]
    IN  IF BitAnd(bytes[49], 224) # 0
        THEN DecodeFail("MalformedSecondComponent", TRUE)
        ELSE LET fZerosOnly == HasOnlyZeros(buffer)
             IN  IF BitAnd(bytes[1], 192) = 192
                 THEN IF bytes[1] # 192 \/ ~fZerosOnly
                      THEN DecodeFail("NonCanonicalInfinity", TRUE)
                      ELSE DecodeOk(G2Element_Default, FALSE)
                 ELSE IF BitAnd(bytes[1], 192) # 128
                      THEN DecodeFail("MalformedHeader", TRUE)
                 ELSE DecodeOk(
                          g2_read_bin([buffer EXCEPT
                              ![1] = IF BitAnd(bytes[1], 32) # 0 THEN 3 ELSE 2]),
                          TRUE)

\* lines 222-259: the path taken once the size check has passed
G2Element_DecodeBody(bytes) ==
    LET half    == G2_SIZE \div 2
        buffer0 == <<0>> \o SubSeq(bytes, half + 1, G2_SIZE) \o SubSeq(bytes, 1, half)
        buffer  == [buffer0 EXCEPT ![50] = BitAnd(@, 31)]
    IN  IF BitAnd(bytes[49], 224) # 0
        THEN DecodeFail("MalformedSecondComponent", TRUE)
        ELSE LET fZerosOnly == HasOnlyZeros(buffer)
             IN  IF BitAnd(bytes[1], 192) = 192
                 THEN IF bytes[1] # 192 \/ ~fZerosOnly
                      THEN DecodeFail("NonCanonicalInfinity", TRUE)
                      ELSE DecodeOk(G2Element_Default, FALSE)
                 ELSE IF BitAnd(bytes[1], 192) # 128
                      THEN DecodeFail("MalformedHeader", TRUE)
                 ELSE IF fZerosOnly
                      THEN DecodeFail("ZeroXNotAllowed", TRUE)
                 ELSE DecodeOk(
                          g2_read_bin([buffer EXCEPT
                              ![1] = IF BitAnd(bytes[1], 32) # 0 THEN 3 ELSE 2]),
                          TRUE)

G2Element_FromBytesUnchecked(bytes) ==
    IF Len(bytes) # G2_SIZE THEN DecodeFail("InvalidSize", FALSE)
    ELSE G2Element_DecodeBody(bytes)

G2Element_IsValid(q) ==
    IF blst_p2_is_inf(q) THEN TRUE ELSE blst_p2_on_curve(q)

G2Element_FromBytes(bytes) ==
    LET r == G2Element_FromBytesUnchecked(bytes)
    IN  IF r.err # "none" THEN r
        ELSE IF ~G2Element_IsValid(r.ele)
             THEN [err |-> "InvalidPoint", touched |-> TRUE, provider |-> r.provider]
        ELSE r

\* G2Element_Serialize without the final swap of the two halves
G2Element_Serialize_NoSwap(q) ==
    LET buffer == g2_write_bin(q)
        half   == G2_SIZE \div 2
    IN  IF buffer[1] = 0
        THEN [i \in 1..G2_SIZE |-> IF i = 1 THEN 192 ELSE 0]
        ELSE LET m1 == [buffer EXCEPT ![2] = BitAnd(@, 31), ![50] = BitAnd(@, 31)]
                 m2 == [m1 EXCEPT ![50] = IF buffer[1] = 3
                                          THEN BitOr(@, 160)
                                          ELSE BitOr(@, 128)]
             IN  SubSeq(m2, 2, half + 1) \o SubSeq(m2, half + 2, G2_SIZE + 1)

G2Element_Serialize(q) ==
    LET buffer == g2_write_bin(q)
        half   == G2_SIZE \div 2
    IN  IF buffer[1] = 0
        THEN [i \in 1..G2_SIZE |-> IF i = 1 THEN 192 ELSE 0]
        ELSE LET m1 == [buffer EXCEPT ![2] = BitAnd(@, 31), ![50] = BitAnd(@, 31)]
                 m2 == [m1 EXCEPT ![50] = IF buffer[1] = 3
                                          THEN BitOr(@, 160)
                                          ELSE BitOr(@, 128)]
             IN  SubSeq(m2, half + 2, G2_SIZE + 1) \o SubSeq(m2, 2, half + 1)

(***************************************************************************)
(* GTElement                                                               *)
(***************************************************************************)
GTElement_Default == ZeroBytes(GT_SIZE)

\* lines 410-412: the path taken once the size check has passed
GTElement_DecodeBody(bytes) == DecodeOk(gt_read_bin(SubSeq(bytes, 1, GT_SIZE)), TRUE)

\* GTElement_FromBytesUnchecked rejecting only inputs that are too short
GTElement_FromBytesUnchecked_SizeLt(bytes) ==
    IF Len(bytes) < GT_SIZE THEN DecodeFail("InvalidSize", FALSE)
    ELSE GTElement_DecodeBody(bytes)

GTElement_FromBytesUnchecked(bytes) ==
    IF Len(bytes) # GT_SIZE THEN DecodeFail("InvalidSize", FALSE)
    ELSE GTElement_DecodeBody(bytes)

GTElement_FromBytes(bytes) ==
    LET r == GTElement_FromBytesUnchecked(bytes)
    IN  IF r.err # "none" THEN r
        ELSE IF ~blst_fp12_in_group(r.ele)
             THEN [err |-> "NotInTargetSubgroup", touched |-> TRUE, provider |-> r.provider]
        ELSE r

GTElement_Unity == gt_set_unity

GTElement_Serialize(r) == gt_write_bin(r)

(***************************************************************************)
(* Construction from a native payload, generator, negation.                *)
(* FromNative is a static factory: it returns a new element and does not   *)
(* touch the object it is called through.                                  *)
(***************************************************************************)
G1Element_FromNative(element) == element

G1Element_Generator ==
    LET ele       == G1Element_Default
        gen1      == blst_p1_generator
        discarded == G1Element_FromNative(gen1)   \* ele.FromNative(*gen1);
    IN  ele

G1Element_Negate(p) ==
    LET ans       == G1Element_Default
        discarded == G1Element_FromNative(p)      \* ans.FromNative(p);
    IN  blst_p1_cneg(ans)

G2Element_FromNative(element) == element

G2Element_Generator ==
    LET ele       == G2Element_Default
        gen2      == blst_p2_generator
        discarded == G2Element_FromNative(gen2)   \* ele.FromNative(*gen2);
    IN  ele

G2Element_Negate(q) ==
    LET ans       == G2Element_Default
        discarded == G2Element_FromNative(q)      \* ans.FromNative(q);
    IN  blst_p2_cneg(ans)

(***************************************************************************)
(* Comparison.  Each operator yields the returned boolean and the payload  *)
(* of the left operand after the call.                                     *)
(***************************************************************************)
NULL == "null"

\* memcmp(a, b, n): 0 exactly when the two payloads are byte-identical
memcmp(a, b) == IF a = b THEN 0 ELSE 1

\* memcpy(dst, src, n): dst receives src; the call returns the pointer dst
memcpy(dstPtr, src) == [ret |-> dstPtr, dst |-> src]

G1Element_OpEq(a, b) == [ret |-> memcmp(a, b) = 0, a |-> a]

G1Element_OpNe(a, b) ==
    LET r == G1Element_OpEq(a, b) IN [ret |-> ~r.ret, a |-> r.a]

G2Element_OpEq(a, b) ==
    LET c == memcpy("&a.q", b)
    IN  [ret |-> c.ret = NULL, a |-> c.dst]

G2Element_OpNe(a, b) ==
    LET r == G2Element_OpEq(a, b) IN [ret |-> ~r.ret, a |-> r.a]

GTElement_OpEq(a, b) == [ret |-> memcmp(a, b) = 0, a |-> a]

GTElement_OpNe(a, b) ==
    LET r == GTElement_OpEq(a, b) IN [ret |-> ~r.ret, a |-> r.a]

(***************************************************************************)
(* The wiping allocator.  A heap is the set of live secure buffers with    *)
(* their contents, the freed buffers whose contents were not wiped, and    *)
(* the log of the accesses made during the current call.                   *)
(***************************************************************************)
EmptyHeap == [live |-> {}, mem |-> <<>>, dirty |-> {}, log |-> <<>>]

SecAlloc(h) ==
    LET ptr == CHOOSE i \in 1..(Cardinality(h.live) + 1) :
                   i \notin h.live /\ \A j \in 1..(i - 1) : j \in h.live
    IN  [ptr  |-> ptr,
         heap |-> [live  |-> h.live \cup {ptr},
                   mem   |-> [i \in h.live \cup {ptr} |->
                                 IF i = ptr THEN ZeroBytes(SCALAR_BYTES) ELSE h.mem[i]],
                   dirty |-> h.dirty \ {ptr},
                   log   |-> Append(h.log, <<"SecAlloc", ptr>>)]]

BufWrite(h, ptr, bytes) ==
    [h EXCEPT !.mem = IF ptr \in h.live
                      THEN [i \in h.live |-> IF i = ptr THEN bytes ELSE h.mem[i]]
                      ELSE h.mem,
              !.log = Append(h.log, <<"write", ptr>>)]

BufRead(h, ptr) ==
    [bytes |-> IF ptr \in h.live THEN h.mem[ptr] ELSE ZeroBytes(SCALAR_BYTES),
     heap  |-> [h EXCEPT !.log = Append(h.log, <<"read", ptr>>)]]

\* wipes the buffer, then releases it
SecFree(h, ptr) ==
    [live  |-> h.live \ {ptr},
     mem   |-> [i \in h.live \ {ptr} |-> h.mem[i]],
     dirty |-> h.dirty,
     log   |-> Append(h.log, <<"SecFree", ptr>>)]

(***************************************************************************)
(* Group operators.                                                        *)
(***************************************************************************)
G1Element_OpAdd(a, b) == blst_p1_add(a, b)

G2Element_OpAdd(a, b) == blst_p2_add(a, b)

\* G1Element_OpMul without the release of the scalar buffer
G1Element_OpMul_NoFree(h, a, k) ==
    LET al  == SecAlloc(h)
        h1  == BufWrite(al.heap, al.ptr, blst_lendian_from_scalar(k))
        rd  == BufRead(h1, al.ptr)
        ans == blst_p1_mult(a, rd.bytes)
    IN  [ans |-> ans, heap |-> rd.heap]

G1Element_OpMul(h, a, k) ==
    LET al  == SecAlloc(h)
        h1  == BufWrite(al.heap, al.ptr, blst_lendian_from_scalar(k))
        rd  == BufRead(h1, al.ptr)
        ans == blst_p1_mult(a, rd.bytes)
        h2  == SecFree(rd.heap, al.ptr)
    IN  [ans |-> ans, heap |-> h2]

G2Element_OpMul(h, a, k) ==
    LET al  == SecAlloc(h)
        h1  == BufWrite(al.heap, al.ptr, blst_lendian_from_scalar(k))
        rd  == BufRead(h1, al.ptr)
        ans == blst_p2_mult(a, rd.bytes)
        h2  == SecFree(rd.heap, al.ptr)
    IN  [ans |-> ans, heap |-> h2]

\* operator*(k, a) { return a * k; }
G1Element_OpMulRev(h, k, a) == G1Element_OpMul(h, a, k)

G2Element_OpMulRev(h, k, a) == G2Element_OpMul(h, a, k)

(***************************************************************************)
(* Dispatch on the static type of an operand.                              *)
(***************************************************************************)
Groups == {"G1", "G2", "GT"}

CurveGroups == {"G1", "G2"}

SizeOf(grp) == IF grp = "G1" THEN G1_SIZE ELSE IF grp = "G2" THEN G2_SIZE ELSE GT_SIZE

DefaultOf(grp) ==
    IF grp = "G1" THEN G1Element_Default
    ELSE IF grp = "G2" THEN G2Element_Default
    ELSE GTElement_Default

FromBytesUnchecked(grp, bytes) ==
    IF grp = "G1" THEN G1Element_FromBytesUnchecked(bytes)
    ELSE IF grp = "G2" THEN G2Element_FromBytesUnchecked(bytes)
    ELSE GTElement_FromBytesUnchecked(bytes)

FromBytes(grp, bytes) ==
    IF grp = "G1" THEN G1Element_FromBytes(bytes)
    ELSE IF grp = "G2" THEN G2Element_FromBytes(bytes)
    ELSE GTElement_FromBytes(bytes)

Serialize(grp, p) ==
    IF grp = "G1" THEN G1Element_Serialize(p)
    ELSE IF grp = "G2" THEN G2Element_Serialize(p)
    ELSE GTElement_Serialize(p)

IsValid(grp, p) ==
    IF grp = "G1" THEN G1Element_IsValid(p)
    ELSE IF grp = "G2" THEN G2Element_IsValid(p)
    ELSE blst_fp12_in_group(p)

OpEq(grp, a, b) ==
    IF grp = "G1" THEN G1Element_OpEq(a, b)
    ELSE IF grp = "G2" THEN G2Element_OpEq(a, b)
    ELSE GTElement_OpEq(a, b)

OpNe(grp, a, b) ==
    IF grp = "G1" THEN G1Element_OpNe(a, b)
    ELSE IF grp = "G2" THEN G2Element_OpNe(a, b)
    ELSE GTElement_OpNe(a, b)

Generator(grp) == IF grp = "G1" THEN G1Element_Generator ELSE G2Element_Generator

Negate(grp, p) == IF grp = "G1" THEN G1Element_Negate(p) ELSE G2Element_Negate(p)

OpAdd(grp, a, b) == IF grp = "G1" THEN G1Element_OpAdd(a, b) ELSE G2Element_OpAdd(a, b)

OpMul(grp, h, a, k) ==
    IF grp = "G1" THEN G1Element_OpMul(h, a, k) ELSE G2Element_OpMul(h, a, k)

OpMulRev(grp, h, k, a) ==
    IF grp = "G1" THEN G1Element_OpMulRev(h, k, a) ELSE G2Element_OpMulRev(h, k, a)

ProviderGenerator(grp) == IF grp = "G1" THEN blst_p1_generator ELSE blst_p2_generator

ProviderNeg(grp, p) == IF grp = "G1" THEN blst_p1_cneg(p) ELSE blst_p2_cneg(p)

ProviderAdd(grp, a, b) == IF grp = "G1" THEN blst_p1_add(a, b) ELSE blst_p2_add(a, b)

(***************************************************************************)
(* Inputs.                                                                 *)
(***************************************************************************)
Flags == {0, 32, 64, 96, 128, 160, 192, 224}

\* one 48-byte big-endian coordinate: first byte, a middle byte, last byte
Coord(first, mid, low) ==
    [i \in 1..FP_BYTES |->
        IF i = 1 THEN first ELSE IF i = 24 THEN mid ELSE IF i = FP_BYTES THEN low ELSE 0]

Resize(b, n) == [i \in 1..n |-> IF i <= Len(b) THEN b[i] ELSE 0]

G1WireInputs ==
    {Coord(f + l, m, x) : f \in Flags, l \in {0, 1}, m \in {0, 1}, x \in 0..MaxCoord}

G2WireInputs ==
    {Coord(b0, 0, c1) \o Coord(b48, 0, c0) :
        b0 \in Flags \cup {129, 193}, c1 \in 0..MaxCoord,
        b48 \in {0, 1, 32, 224}, c0 \in 0..MaxCoord}

GTWireInputs ==
    {Coord(0, 0, x) \o Coord(0, 0, m) \o ZeroBytes(GT_SIZE - 2 * FP_BYTES) :
        x \in 0..MaxCoord, m \in {0, 1}}

Lengths ==
    {0, G1_SIZE - 1, G1_SIZE, G1_SIZE + 1, G2_SIZE - 1, G2_SIZE, G2_SIZE + 1,
     GT_SIZE - 1, GT_SIZE, GT_SIZE + 1}

G1Samples == {Coord(192, 0, 0), Coord(128, 0, 7), Coord(160, 0, 7), Coord(128, 0, 1)}

G2Samples ==
    {Coord(192, 0, 0) \o Coord(0, 0, 0), Coord(128, 0, 0) \o Coord(0, 0, 7),
     Coord(160, 0, 0) \o Coord(0, 0, 7), Coord(128, 0, 1) \o Coord(0, 0, 1)}

GTSamples ==
    {Coord(0, 0, x) \o ZeroBytes(GT_SIZE - FP_BYTES) : x \in {1, 2, 3}}

SamplesOf(grp) ==
    IF grp = "G1" THEN G1Samples ELSE IF grp = "G2" THEN G2Samples ELSE GTSamples

WrongSized(grp) ==
    {Resize(b, n) : b \in SamplesOf(grp), n \in Lengths \ {SizeOf(grp)}}

CodecInputs(grp) ==
    (IF grp = "G1" THEN G1WireInputs
     ELSE IF grp = "G2" THEN G2WireInputs
     ELSE GTWireInputs) \cup WrongSized(grp)

\* the byte strings the element machine decodes
MachineInputs(grp) ==
    SamplesOf(grp) \cup {Resize(b, SizeOf(grp) - 1) : b \in SamplesOf(grp)}

Scalars == 0..MaxScalar

Slots == {1, 2}

(***************************************************************************)
(* State.                                                                  *)
(*   slot : the program's element variables, each of a fixed static type   *)
(*   heap : the wiping allocator                                           *)
(*   last : the last call made, with its operands and its result           *)
(***************************************************************************)
VARIABLES slot, heap, last

vars == <<slot, heap, last>>

Element(grp, p) == [grp |-> grp, p |-> p]

Idle == [op |-> "none"]

\* the program's variables, all of one of the three types, default-constructed
Init ==
    /\ slot \in {[s \in Slots |-> Element(g, DefaultOf(g))] : g \in Groups}
    /\ heap = EmptyHeap
    /\ last = Idle

Call(op, grp, a, b, ret) ==
    [op |-> op, grp |-> grp, a |-> a, b |-> b, pre |-> slot, ret |-> ret]

DoFromBytes(s, bytes) ==
    LET g == slot[s].grp
        r == FromBytes(g, bytes)
    IN  /\ slot' = IF r.err = "none" THEN [slot EXCEPT ![s] = Element(g, r.ele)] ELSE slot
        /\ last' = Call("FromBytes", g, s, s, r.err)
        /\ UNCHANGED heap

DoGenerator(s) ==
    /\ slot[s].grp \in CurveGroups
    /\ slot' = [slot EXCEPT ![s] = Element(slot[s].grp, Generator(slot[s].grp))]
    /\ last' = Call("Generator", slot[s].grp, s, s, "")
    /\ UNCHANGED heap

DoUnity(s) ==
    /\ slot[s].grp = "GT"
    /\ slot' = [slot EXCEPT ![s] = Element("GT", GTElement_Unity)]
    /\ last' = Call("Unity", "GT", s, s, "")
    /\ UNCHANGED heap

\* slot[d] = slot[s].Negate()
DoNegate(s, d) ==
    /\ slot[s].grp \in CurveGroups
    /\ slot[d].grp = slot[s].grp
    /\ slot' = [slot EXCEPT ![d] = Element(slot[s].grp, Negate(slot[s].grp, slot[s].p))]
    /\ last' = Call("Negate", slot[s].grp, s, d, "")
    /\ UNCHANGED heap

\* slot[d] = slot[s] + slot[t]
DoAdd(s, t, d) ==
    /\ slot[s].grp \in CurveGroups
    /\ slot[t].grp = slot[s].grp
    /\ slot[d].grp = slot[s].grp
    /\ slot' = [slot EXCEPT ![d] =
                   Element(slot[s].grp, OpAdd(slot[s].grp, slot[s].p, slot[t].p))]
    /\ last' = Call("Add", slot[s].grp, s, t, "")
    /\ UNCHANGED heap

\* slot[s] += slot[t]
DoAddAssign(s, t) ==
    /\ slot[s].grp \in CurveGroups
    /\ slot[t].grp = slot[s].grp
    /\ slot' = [slot EXCEPT ![s] =
                   Element(slot[s].grp, ProviderAdd(slot[s].grp, slot[s].p, slot[t].p))]
    /\ last' = Call("AddAssign", slot[s].grp, s, t, "")
    /\ UNCHANGED heap

\* slot[d] = slot[s] * k
DoMul(s, k, d) ==
    /\ slot[s].grp \in CurveGroups
    /\ slot[d].grp = slot[s].grp
    /\ LET r == OpMul(slot[s].grp, heap, slot[s].p, k)
       IN  /\ slot' = [slot EXCEPT ![d] = Element(slot[s].grp, r.ans)]
           /\ heap' = [r.heap EXCEPT !.log = <<>>]
           /\ last' = [Call("Mul", slot[s].grp, s, d, k) EXCEPT !.ret = r.heap.log]

\* slot[d] = k * slot[s]
DoMulRev(s, k, d) ==
    /\ slot[s].grp \in CurveGroups
    /\ slot[d].grp = slot[s].grp
    /\ LET r == OpMulRev(slot[s].grp, heap, k, slot[s].p)
       IN  /\ slot' = [slot EXCEPT ![d] = Element(slot[s].grp, r.ans)]
           /\ heap' = [r.heap EXCEPT !.log = <<>>]
           /\ last' = [Call("MulRev", slot[s].grp, s, d, k) EXCEPT !.ret = r.heap.log]

\* slot[s] == slot[t]
DoEq(s, t) ==
    /\ slot[t].grp = slot[s].grp
    /\ LET r == OpEq(slot[s].grp, slot[s].p, slot[t].p)
       IN  /\ slot' = [slot EXCEPT ![s] = Element(slot[s].grp, r.a)]
           /\ last' = Call("Eq", slot[s].grp, s, t, r.ret)
    /\ UNCHANGED heap

\* slot[s] != slot[t]
DoNe(s, t) ==
    /\ slot[t].grp = slot[s].grp
    /\ LET r == OpNe(slot[s].grp, slot[s].p, slot[t].p)
       IN  /\ slot' = [slot EXCEPT ![s] = Element(slot[s].grp, r.a)]
           /\ last' = Call("Ne", slot[s].grp, s, t, r.ret)
    /\ UNCHANGED heap

DoSerialize(s) ==
    /\ last' = Call("Serialize", slot[s].grp, s, s, Serialize(slot[s].grp, slot[s].p))
    /\ UNCHANGED <<slot, heap>>

Next ==
    \/ \E s \in Slots : \E bytes \in MachineInputs(slot[s].grp) : DoFromBytes(s, bytes)
    \/ \E s \in Slots : DoGenerator(s)
    \/ \E s \in Slots : DoUnity(s)
    \/ \E s \in Slots, d \in Slots : DoNegate(s, d)
    \/ \E s \in Slots, t \in Slots, d \in Slots : DoAdd(s, t, d)
    \/ \E s \in Slots, t \in Slots : DoAddAssign(s, t)
    \/ \E s \in Slots, d \in Slots : \E k \in Scalars : DoMul(s, k, d)
    \/ \E s \in Slots, d \in Slots : \E k \in Scalars : DoMulRev(s, k, d)
    \/ \E s \in Slots, t \in Slots : DoEq(s, t)
    \/ \E s \in Slots, t \in Slots : DoNe(s, t)
    \/ \E s \in Slots : DoSerialize(s)

Spec == Init /\ [][Next]_vars

(***************************************************************************)
(* The codec as a pure function: the initial state draws one byte string   *)
(* and a decoder is applied to it.                                         *)
(***************************************************************************)
InitCodec ==
    /\ slot = [s \in Slots |-> Element("G1", G1Element_Default)]
    /\ heap = EmptyHeap
    /\ last \in UNION {{[op |-> "input", grp |-> g, bytes |-> b] : b \in CodecInputs(g)} :
                         g \in Groups}

Decoded(op, r) ==
    [op    |-> op,
     grp   |-> last.grp,
     bytes |-> last.bytes,
     res   |-> r,
     reser |-> IF r.err = "none" THEN Serialize(last.grp, r.ele) ELSE <<>>]

CallFromBytesUnchecked ==
    /\ last.op = "input"
    /\ last' = Decoded("FromBytesUnchecked", FromBytesUnchecked(last.grp, last.bytes))
    /\ UNCHANGED <<slot, heap>>

CallFromBytes ==
    /\ last.op = "input"
    /\ last' = Decoded("FromBytes", FromBytes(last.grp, last.bytes))
    /\ UNCHANGED <<slot, heap>>

NextCodec == CallFromBytesUnchecked \/ CallFromBytes

SpecCodec == InitCodec /\ [][NextCodec]_vars
(***************************************************************************)
(* Properties.                                                             *)
(***************************************************************************)
InfinityFlag(b) == BitAnd(b[1], 64) # 0

CompressionFlag(b) == BitAnd(b[1], 128) # 0

\* some bit other than the three flag bits of byte 0 is set
RestNonZero(b) == BitAnd(b[1], 31) # 0 \/ \E i \in 2..Len(b) : b[i] # 0

RoundTripsEqual(grp, e) ==
    LET r == FromBytes(grp, Serialize(grp, e))
    IN  r.err = "none" /\ OpEq(grp, r.ele, e).ret

\* C1: every valid element held by the program decodes from its own
\* serialization to an element that compares equal to it under operator==.
C1_RoundTrip ==
    \A s \in Slots :
        IsValid(slot[s].grp, slot[s].p) => RoundTripsEqual(slot[s].grp, slot[s].p)

\* C2: whenever FromBytesUnchecked accepts a G1 or G2 byte string, serializing
\* the decoded element gives back exactly that byte string.
C2_EncodeLeftInverse ==
    (last.op = "FromBytesUnchecked" /\ last.grp \in CurveGroups /\ last.res.err = "none")
        => last.reser = last.bytes

C2_Witness ==
    /\ last.op = "FromBytesUnchecked"
    /\ last.grp = "G2"
    /\ last.res.err = "none"
    /\ last.res.provider
    /\ BitAnd(last.bytes[1], 32) # 0
    /\ last.bytes[G2_SIZE] # 0
    /\ last.reser = last.bytes

\* C3 as stated: a correctly-sized G1 or G2 input with the infinity flag set
\* and some other bit set fails with NonCanonicalInfinity, whatever the
\* compression bit, the sign bit and the top three bits of byte 48.
C3_AsStated ==
    (/\ last.op = "FromBytesUnchecked"
     /\ last.grp \in CurveGroups
     /\ Len(last.bytes) = SizeOf(last.grp)
     /\ InfinityFlag(last.bytes)
     /\ RestNonZero(last.bytes))
        => last.res.err = "NonCanonicalInfinity"

\* C3 amended: a correctly-sized G1 or G2 input with the infinity flag and the
\* compression bit both set, (for G2) the top three bits of byte 48 clear, and
\* some other bit set fails with NonCanonicalInfinity, whatever the sign bit.
C3_CanonicalRejection ==
    (/\ last.op = "FromBytesUnchecked"
     /\ last.grp \in CurveGroups
     /\ Len(last.bytes) = SizeOf(last.grp)
     /\ InfinityFlag(last.bytes)
     /\ CompressionFlag(last.bytes)
     /\ (last.grp = "G2" => BitAnd(last.bytes[49], 224) = 0)
     /\ RestNonZero(last.bytes))
        => last.res.err = "NonCanonicalInfinity"

C3_Witness ==
    /\ last.op = "FromBytesUnchecked"
    /\ last.grp = "G2"
    /\ Len(last.bytes) = G2_SIZE
    /\ BitAnd(last.bytes[1], 224) = 224
    /\ last.bytes[G2_SIZE] # 0
    /\ last.res.err = "NonCanonicalInfinity"

\* C4 as stated: a correctly-sized G1 or G2 input with the infinity flag clear
\* and all coordinate bits zero fails with ZeroXNotAllowed for every value of
\* the compression and sign bits, without reaching the provider.
C4_AsStated ==
    (/\ last.op = "FromBytesUnchecked"
     /\ last.grp \in CurveGroups
     /\ Len(last.bytes) = SizeOf(last.grp)
     /\ ~InfinityFlag(last.bytes)
     /\ ~RestNonZero(last.bytes))
        => (last.res.err = "ZeroXNotAllowed" /\ ~last.res.provider)

\* C4 amended: such an input fails with ZeroXNotAllowed when the compression
\* bit is set (for either sign bit) and with MalformedHeader when it is clear;
\* in both cases no element is returned and the provider is not reached.
C4_ZeroXRejection ==
    (/\ last.op = "FromBytesUnchecked"
     /\ last.grp \in CurveGroups
     /\ Len(last.bytes) = SizeOf(last.grp)
     /\ ~InfinityFlag(last.bytes)
     /\ ~RestNonZero(last.bytes))
        => /\ last.res.err = IF CompressionFlag(last.bytes)
                             THEN "ZeroXNotAllowed"
                             ELSE "MalformedHeader"
           /\ ~last.res.provider

C4_Witness ==
    /\ last.op = "FromBytesUnchecked"
    /\ last.grp = "G2"
    /\ Len(last.bytes) = G2_SIZE
    /\ last.bytes[1] = 160
    /\ ~RestNonZero(last.bytes)
    /\ last.res.err = "ZeroXNotAllowed"

\* C5: FromBytesUnchecked and FromBytes of all three types fail with
\* InvalidSize on every input of the wrong length, before any input byte is
\* read and without reaching the provider.
C5_SizeStrictness ==
    (/\ last.op \in {"FromBytesUnchecked", "FromBytes"}
     /\ Len(last.bytes) # SizeOf(last.grp))
        => (last.res.err = "InvalidSize" /\ ~last.res.touched /\ ~last.res.provider)

C5_Witness ==
    /\ last.op = "FromBytes"
    /\ last.grp = "GT"
    /\ Len(last.bytes) = GT_SIZE + 1
    /\ last.res.err = "InvalidSize"

\* C6: comparing two G2 elements returns true for == exactly when the two
\* payloads are identical, and != returns the negation.
C6_G2EqualityByteExact ==
    (last.op \in {"Eq", "Ne"} /\ last.grp = "G2")
        => LET same == last.pre[last.a].p = last.pre[last.b].p
           IN  last.ret = IF last.op = "Eq" THEN same ELSE ~same

\* C7: a comparison leaves both operands (every variable of the program)
\* as they were before the call.
C7_ComparisonFrame ==
    last.op \in {"Eq", "Ne"} => slot = last.pre

\* C8: Generator() yields the provider's generator, which is not the identity,
\* is valid, and whose serialization decodes back to it.
C8_GeneratorValid ==
    last.op = "Generator"
        => LET e == slot[last.a]
               r == FromBytes(e.grp, Serialize(e.grp, e.p))
           IN  /\ e.p = ProviderGenerator(e.grp)
               /\ ~e.p.inf
               /\ IsValid(e.grp, e.p)
               /\ r.err = "none"
               /\ r.ele = e.p

\* the accesses of one multiplication: one buffer from SecAlloc, the scalar
\* written to and read from that buffer only, then the buffer released once
\* by SecFree, as the last access
TraceOK(tr) ==
    /\ Len(tr) >= 4
    /\ tr[1][1] = "SecAlloc"
    /\ tr[Len(tr)] = <<"SecFree", tr[1][2]>>
    /\ \A i \in 2..(Len(tr) - 1) : tr[i] \in {<<"write", tr[1][2]>>, <<"read", tr[1][2]>>}
    /\ tr[2] = <<"write", tr[1][2]>>

\* C9: every scalar multiplication stages the scalar in one secure buffer and
\* releases it exactly once through SecFree; no secure buffer stays allocated
\* and none is used after its release.
C9_SecretScalarHygiene ==
    /\ heap.live = {}
    /\ heap.dirty = {}
    /\ last.op \in {"Mul", "MulRev"} => TraceOK(last.ret)

C9_Witness ==
    /\ last.op = "MulRev"
    /\ last.grp = "G2"
    /\ ~slot[last.b].p.inf
    /\ heap.live = {}

\* C10: e.Negate() is the provider's negation of e's own payload, it adds to e
\* to the identity, and e is left unchanged.
C10_NegateReceiver ==
    last.op = "Negate"
        => LET e == last.pre[last.a].p
               r == slot[last.b].p
           IN  /\ r = ProviderNeg(last.grp, e)
               /\ ProviderAdd(last.grp, e, r) = DefaultOf(last.grp)
               /\ (last.a # last.b => slot[last.a] = last.pre[last.a])
====
